---- MODULE Spec2Model ----
(***************************************************************************)
(* Model of the Python config extractor/relay                              *)
(* (src/runtime/python/get_config.py) and of the worker modules it loads   *)
(* (playground/server/queues/hello.py).                                    *)
(*                                                                         *)
(* Python values are tagged pairs <<tag, payload>>:                        *)
(*   <<"str", s>>       a str                                              *)
(*   <<"int", d>>       an int, d its decimal text                         *)
(*   <<"callable", n>>  a function object (not JSON serializable)          *)
(*   <<"list", seq>>    a list of values                                   *)
(*   <<"dict", seq>>    a dict: insertion-ordered <<key, value>> entries   *)
(*                      with pairwise distinct keys; a key is a str or an  *)
(*                      int value                                          *)
(* The wire format is a sequence of JSON tokens <<kind, text>>.            *)
(***************************************************************************)
EXTENDS Integers, Sequences, FiniteSets, TLC

\* ------------------------------------------------------------------ bounds
\* most entries of a top-level config dict
MaxKeys == 2
\* most elements of a list value
MaxListLen == 1

\* ------------------------------------------------------- Python values
PyStr(s) == <<"str", s>>
PyInt(d) == <<"int", d>>
PyCallable(n) == <<"callable", n>>
PyList(s) == <<"list", s>>
PyDict(s) == <<"dict", s>>

IsDict(v) == v[1] = "dict"

\* the key the relay strips
MIDDLEWARE == PyStr("middleware")

\* `k in d` for a dict d
DictHas(d, k) == \E i \in 1..Len(d[2]) : d[2][i][1] = k

\* d[k] for a key known to be present
DictGet(d, k) == d[2][CHOOSE i \in 1..Len(d[2]) : d[2][i][1] = k][2]

DictKeys(d) == { d[2][i][1] : i \in 1..Len(d[2]) }

\* mutant of DictDel: the entry is left in place
DictDelKeeps(d, k) == d

\* mutant of DictDel: every entry but k's is dropped too
DictDelClears(d, k) == PyDict(<< >>)

\* `del d[k]`: the dict without k's entry, other entries in order
DictDel(d, k) == PyDict(SelectSeq(d[2], LAMBDA e : e[1] # k))

\* d[k] = v as dict(pairs) builds it: a repeated key keeps its first
\* position and takes the last value
DictSet(d, k, v) ==
    IF DictHas(d, k)
    THEN PyDict([i \in 1..Len(d[2]) |->
                 IF d[2][i][1] = k THEN <<k, v>> ELSE d[2][i]])
    ELSE PyDict(Append(d[2], <<k, v>>))

\* ------------------------------------------------------------ json.dumps
LBRACE == <<"punct", "{">>
RBRACE == <<"punct", "}">>
LBRACK == <<"punct", "[">>
RBRACK == <<"punct", "]">>
COMMA == <<"punct", ",">>
COLON == <<"punct", ":">>
NEWLINE == <<"punct", "\n">>

\* json.dumps raises TypeError on a value it has no encoding for
RECURSIVE Serializable(_)
Serializable(v) ==
    CASE v[1] = "str" -> TRUE
      [] v[1] = "int" -> TRUE
      [] v[1] = "callable" -> FALSE
      [] v[1] = "list" -> \A i \in 1..Len(v[2]) : Serializable(v[2][i])
      [] v[1] = "dict" -> \A i \in 1..Len(v[2]) : Serializable(v[2][i][2])

\* a dict key on the wire: JSON member names are strings, json.dumps
\* writes an int key as the string of its decimal text
KeyToken(k) == <<"string", k[2]>>

RECURSIVE Dumps(_)
RECURSIVE DumpsItems(_)
RECURSIVE DumpsMembers(_)

\* the elements of a list, comma separated
DumpsItems(s) ==
    IF s = << >> THEN << >>
    ELSE Dumps(Head(s)) \o
         (IF Len(s) > 1 THEN <<COMMA>> \o DumpsItems(Tail(s)) ELSE << >>)

\* the members of a dict, comma separated
DumpsMembers(s) ==
    IF s = << >> THEN << >>
    ELSE <<KeyToken(Head(s)[1]), COLON>> \o Dumps(Head(s)[2]) \o
         (IF Len(s) > 1 THEN <<COMMA>> \o DumpsMembers(Tail(s)) ELSE << >>)

\* json.dumps(v) for a serializable v, as JSON tokens
Dumps(v) ==
    CASE v[1] = "str" -> << <<"string", v[2]>> >>
      [] v[1] = "int" -> << <<"number", v[2]>> >>
      [] v[1] = "list" -> <<LBRACK>> \o DumpsItems(v[2]) \o <<RBRACK>>
      [] v[1] = "dict" -> <<LBRACE>> \o DumpsMembers(v[2]) \o <<RBRACE>>

\* (json.dumps(payload) + "\n").encode("utf-8")
BytesMessage(payload) == Dumps(payload) \o <<NEWLINE>>

\* ------------------------------------------------------------ json.loads
\* the parent's decoding of the line it receives; a parse step returns
\* <<value, index of the next token>>
RECURSIVE ParseValue(_, _)
RECURSIVE ParseItems(_, _, _)
RECURSIVE ParseMembers(_, _, _)

ParseItems(t, i, acc) ==
    LET r == ParseValue(t, i)
        acc2 == Append(acc, r[1])
    IN IF t[r[2]] = COMMA
       THEN ParseItems(t, r[2] + 1, acc2)
       ELSE <<PyList(acc2), r[2] + 1>>

ParseMembers(t, i, acc) ==
    LET r == ParseValue(t, i + 2)
        acc2 == DictSet(acc, PyStr(t[i][2]), r[1])
    IN IF t[r[2]] = COMMA
       THEN ParseMembers(t, r[2] + 1, acc2)
       ELSE <<acc2, r[2] + 1>>

ParseValue(t, i) ==
    CASE t[i][1] = "string" -> <<PyStr(t[i][2]), i + 1>>
      [] t[i][1] = "number" -> <<PyInt(t[i][2]), i + 1>>
      [] t[i] = LBRACK ->
           IF t[i + 1] = RBRACK THEN <<PyList(<< >>), i + 2>>
           ELSE ParseItems(t, i + 1, << >>)
      [] t[i] = LBRACE ->
           IF t[i + 1] = RBRACE THEN <<PyDict(<< >>), i + 2>>
           ELSE ParseMembers(t, i + 1, PyDict(<< >>))

\* json.loads(line): the value of the first JSON text on the line
\* (the trailing newline is whitespace to the decoder)
Loads(t) == ParseValue(t, 1)[1]

\* a member named `name` occurs somewhere in the JSON text, at any depth
WireHasKey(t, name) ==
    \E i \in 1..(Len(t) - 1) : t[i] = <<"string", name>> /\ t[i + 1] = COLON

\* ------------------------------------------------- the worker modules
SeqsUpTo(S, n) == UNION { [1..k -> S] : k \in 0..n }

Leaves == { PyStr("x"), PyStr("middleware"), PyInt("1"), PyCallable("handler") }

\* the values of a dict config's entries
InnerValues ==
    { PyStr("x"), PyInt("1"), PyCallable("handler") }
    \cup { PyList(s) : s \in SeqsUpTo({PyStr("x"), PyCallable("handler")}, MaxListLen) }
    \cup { PyDict(<< <<k, PyStr("x")>> >>) : k \in {MIDDLEWARE, PyStr("step")} }

TopKeys == { PyStr("queue"), MIDDLEWARE, PyInt("1") }

DistinctKeys(s) == \A i, j \in 1..Len(s) : s[i][1] = s[j][1] => i = j

DictConfigs ==
    { PyDict(s) : s \in { e \in SeqsUpTo(TopKeys \X InnerValues, MaxKeys) : DistinctKeys(e) } }

\* the config of playground/server/queues/hello.py
HelloConfig ==
    PyDict(<< <<PyStr("queue"), PyStr("hello")>>,
              <<PyStr("flow"),
                PyDict(<< <<PyStr("name"), PyList(<<PyStr("welcome-flow")>>)>>,
                          <<PyStr("role"), PyStr("entry")>>,
                          <<PyStr("step"), PyStr("hello")>>,
                          <<PyStr("emits"), PyList(<<PyStr("hello.done")>>)>> >>)>> >>)

\* hello.py's run function
HelloRun == PyCallable("run")

\* every value a module may bind to `config`: dicts, lists and scalars
Configs ==
    DictConfigs
    \cup { PyList(s) : s \in SeqsUpTo(InnerValues, MaxListLen) }
    \cup Leaves
    \cup { HelloConfig }

\* a module's attributes are <<name, value>> pairs
HasAttr(m, name) == \E a \in m : a[1] = name
GetAttr(m, name) == (CHOOSE a \in m : a[1] = name)[2]

\* what is found at the path: nothing, or a module file whose execution
\* raises an exception, calls sys.exit(code), is interrupted, or completes
\* and leaves the attributes attrs
Files ==
    { [kind |-> k, code |-> 0, attrs |-> {<<"run", HelloRun>>}] :
        k \in {"absent", "raises", "interrupt", "module"} }
    \cup { [kind |-> "exits", code |-> c, attrs |-> {<<"run", HelloRun>>}] : c \in {0, 3} }
    \cup { [kind |-> "module", code |-> 0, attrs |-> {<<"run", HelloRun>>, <<"config", c>>}] :
             c \in Configs }

\* a path is <<parent directory, directory name, file stem, extension>>
Paths == { <<"/srv", "queues", "hello", ".py">>, <<"/srv", "queues", "hello", ".txt">> }

\* a module file of no interest, for runs that never execute the file
PlainFile == [kind |-> "module", code |-> 0, attrs |-> {<<"run", HelloRun>>}]

\* os.path.dirname(os.path.abspath(file_path))
Dirname(p) == <<p[1], p[2]>>

\* os.path.basename(module_dir)
PackageName(p) == p[2]

\* os.path.splitext(os.path.basename(file_path))[0]
ModuleName(p) == p[3]

\* the suffixes importlib has a loader for; spec_from_file_location
\* returns None for any other
LoaderSuffixes == { ".py", ".pyc", ".so" }

\* ------------------------------------------------------ the environment
\* int(s) for the values NODE_CHANNEL_FD takes here; int() raises
\* ValueError on a string outside the table
IntLiterals == [ s \in {"3", "9"} |-> IF s = "3" THEN 3 ELSE 9 ]

Environs ==
    { [ v \in {"PATH"} |-> "/bin" ] }
    \cup { [ v \in {"PATH", "NODE_CHANNEL_FD"} |->
               IF v = "PATH" THEN "/bin" ELSE s ] : s \in {"abc", "3", "9"} }

\* the descriptors the parent left open: the standard three and the channel
OpenFds == { 0, 1, 2, 3 }

\* every descriptor number os.write may be handed
AllFds == OpenFds \cup { IntLiterals[s] : s \in DOMAIN IntLiterals }

\* ------------------------------------------------------------ exceptions
\* an exception is its type and the parts of str(error)
NoError == [type |-> "", msg |-> << >>]

ImportErrorFor(path) ==
    [type |-> "ImportError", msg |-> << <<"Could not load module from ">>, path >>]

\* mutant of AttributeErrorFor: the message names the module, not the path
AttributeErrorNamed(path) ==
    [type |-> "AttributeError",
     msg |-> << <<"No '", "config", "' found in module ">>, <<ModuleName(path)>> >>]

AttributeErrorFor(path) ==
    [type |-> "AttributeError",
     msg |-> << <<"No '", "config", "' found in module ">>, path >>]

FileNotFoundErrorFor(path) ==
    [type |-> "FileNotFoundError",
     msg |-> << <<"[Errno 2] No such file or directory: ">>, path >>]

ModuleError == [type |-> "RuntimeError", msg |-> << <<"boom">> >>]

TypeErrorFor(v) ==
    [type |-> "TypeError", msg |-> << <<"Object of type function is not JSON serializable">> >>]

KeyErrorFor(name) == [type |-> "KeyError", msg |-> << <<"'", name, "'">> >>]

ValueErrorFor(s) ==
    [type |-> "ValueError",
     msg |-> << <<"invalid literal for int() with base 10: ">>, <<"'", s, "'">> >>]

BadFdError == [type |-> "OSError", msg |-> << <<"[Errno 9] Bad file descriptor">> >>]

BrokenPipe == [type |-> "BrokenPipeError", msg |-> << <<"[Errno 32] Broken pipe">> >>]

\* print("Error running Python module:", str(error), file=sys.stderr)
DiagnosticLine(e) == << <<"Error running Python module:">> >> \o e.msg

\* what the interpreter prints for an uncaught KeyboardInterrupt
InterruptTraceback == << <<"Traceback (most recent call last):">>, <<"KeyboardInterrupt">> >>

\* exit status of a process killed by an uncaught KeyboardInterrupt
InterruptStatus == 130

\* cfg before `cfg = getattr(module, "config")`
Unbound == <<"unbound", "">>

\* ------------------------------------------------------------- the state
VARIABLES
    argv,          \* sys.argv: the script, then the module path if given
    file,          \* what is at the module path
    platform,      \* platform.system()
    environ,       \* os.environ
    stdoutState,   \* "open", or "broken": the reader of stdout is gone
    sysPath,       \* sys.path
    pc,            \* the statement the process is at
    file_path,     \* the local file_path, << >> until bound
    loaded,        \* exec_module completed
    module,        \* the attributes of the loaded module object
    cfg,           \* the local cfg; the same object as module.config
    bytes_message, \* the local bytes_message of send_message
    fd,            \* the local fd of send_message, -1 until bound
    error,         \* the exception on its way to the except clause
    stdoutBuf,     \* bytes held by sys.stdout.buffer
    stdoutStream,  \* bytes delivered on standard output
    fdOut,         \* bytes written by os.write, per descriptor
    stderr,        \* lines written to standard error
    envReads,      \* names looked up in os.environ
    trace,         \* the statements executed so far
    exitStatus     \* the exit status, -1 while running

vars == <<argv, file, platform, environ, stdoutState, sysPath, pc, file_path,
          loaded, module, cfg, bytes_message, fd, error, stdoutBuf,
          stdoutStream, fdOut, stderr, envReads, trace, exitStatus>>

world == <<argv, file, platform, environ, stdoutState>>

Init ==
    /\ argv \in { <<"get_config.py">> } \cup { <<"get_config.py", p>> : p \in Paths }
    /\ file \in Files
    \* a file that is never executed is of no interest
    /\ (Len(argv) < 2 \/ argv[2][4] \notin LoaderSuffixes) => file = PlainFile
    /\ platform \in {"Windows", "Linux"}
    /\ environ \in Environs
    \* where the variable is not consulted, unset and one set value do
    /\ (platform = "Windows" /\ "NODE_CHANNEL_FD" \in DOMAIN environ)
         => environ["NODE_CHANNEL_FD"] = "3"
    /\ stdoutState \in {"open", "broken"}
    \* standard output only matters where it is the channel
    /\ platform # "Windows" => stdoutState = "open"
    /\ sysPath \in { << <<"/opt", "runtime">> >>,
                     << <<"/opt", "runtime">>, <<"/srv", "queues">> >> }
    \* sys.path matters to InsertPath alone: one-entry configs cover it
    /\ (/\ HasAttr(file.attrs, "config")
        /\ IsDict(GetAttr(file.attrs, "config"))
        /\ Len(GetAttr(file.attrs, "config")[2]) > 1) => Len(sysPath) = 1
    /\ pc = "main"
    /\ file_path = << >>
    /\ loaded = FALSE
    /\ module = {}
    /\ cfg = Unbound
    /\ bytes_message = << >>
    /\ fd = -1
    /\ error = NoError
    /\ stdoutBuf = << >>
    /\ stdoutStream = << >>
    /\ fdOut = [ d \in AllFds |-> << >> ]
    /\ stderr = << >>
    /\ envReads = {}
    /\ trace = << >>
    /\ exitStatus = -1

\* ------------------------------------------------------------ the program
InSeq(x, s) == \E i \in 1..Len(s) : s[i] = x

Step(name) == trace' = Append(trace, name)

\* raise e inside the try block: control moves to the except clause
Raise(e) == /\ error' = e
            /\ pc' = "except"

\* mutant of Main: a missing argument is reported on standard error
MainReports ==
    /\ pc = "main"
    /\ Step("main")
    /\ IF Len(argv) < 2
       THEN /\ stderr' = Append(stderr, << <<"usage: get_config.py <file>">> >>)
            /\ exitStatus' = 1
            /\ pc' = "exited"
            /\ UNCHANGED file_path
       ELSE /\ file_path' = argv[2]
            /\ pc' = "path"
            /\ UNCHANGED <<exitStatus, stderr>>
    /\ UNCHANGED <<world, sysPath, loaded, module, cfg, bytes_message, fd,
                   error, stdoutBuf, stdoutStream, fdOut, envReads>>

\* the __main__ block: without an argument, sys.exit(1)
Main ==
    /\ pc = "main"
    /\ Step("main")
    /\ IF Len(argv) < 2
       THEN /\ exitStatus' = 1
            /\ pc' = "exited"
            /\ UNCHANGED file_path
       ELSE /\ file_path' = argv[2]
            /\ pc' = "path"
            /\ UNCHANGED exitStatus
    /\ UNCHANGED <<world, sysPath, loaded, module, cfg, bytes_message, fd,
                   error, stdoutBuf, stdoutStream, fdOut, stderr, envReads>>

\* the module's directory is put first on sys.path unless already on it
InsertPath ==
    /\ pc = "path"
    /\ Step("path")
    /\ sysPath' = IF InSeq(Dirname(file_path), sysPath)
                  THEN sysPath
                  ELSE <<Dirname(file_path)>> \o sysPath
    /\ pc' = "spec"
    /\ UNCHANGED <<world, file_path, loaded, module, cfg, bytes_message, fd,
                   error, stdoutBuf, stdoutStream, fdOut, stderr, envReads,
                   exitStatus>>

\* spec_from_file_location; `spec is None` raises ImportError
SpecFromFile ==
    /\ pc = "spec"
    /\ Step("spec")
    /\ IF file_path[4] \in LoaderSuffixes
       THEN /\ pc' = "exec"
            /\ UNCHANGED error
       ELSE Raise(ImportErrorFor(file_path))
    /\ UNCHANGED <<world, sysPath, file_path, loaded, module, cfg,
                   bytes_message, fd, stdoutBuf, stdoutStream, fdOut, stderr,
                   envReads, exitStatus>>

\* module_from_spec, __package__, exec_module. SystemExit and
\* KeyboardInterrupt are not Exceptions: they pass the except clause and
\* asyncio.run, and end the process
ExecModule ==
    /\ pc = "exec"
    /\ Step("exec")
    /\ CASE file.kind = "absent" ->
              /\ Raise(FileNotFoundErrorFor(file_path))
              /\ UNCHANGED <<loaded, module, stderr, exitStatus>>
         [] file.kind = "raises" ->
              /\ Raise(ModuleError)
              /\ UNCHANGED <<loaded, module, stderr, exitStatus>>
         [] file.kind = "exits" ->
              /\ exitStatus' = file.code
              /\ pc' = "exited"
              /\ UNCHANGED <<loaded, module, stderr, error>>
         [] file.kind = "interrupt" ->
              /\ stderr' = Append(stderr, InterruptTraceback)
              /\ exitStatus' = InterruptStatus
              /\ pc' = "exited"
              /\ UNCHANGED <<loaded, module, error>>
         [] file.kind = "module" ->
              /\ module' = file.attrs
                           \cup { <<"__name__", PyStr(ModuleName(file_path))>>,
                                  <<"__package__", PyStr(PackageName(file_path))>> }
              /\ loaded' = TRUE
              /\ pc' = "hasattr"
              /\ UNCHANGED <<stderr, exitStatus, error>>
    /\ UNCHANGED <<world, sysPath, file_path, cfg, bytes_message, fd,
                   stdoutBuf, stdoutStream, fdOut, envReads>>

\* hasattr(module, "config"), else AttributeError; cfg = getattr(...)
CheckConfig ==
    /\ pc = "hasattr"
    /\ Step("hasattr")
    /\ IF HasAttr(module, "config")
       THEN /\ cfg' = GetAttr(module, "config")
            /\ pc' = "middleware"
            /\ UNCHANGED error
       ELSE /\ Raise(AttributeErrorFor(file_path))
            /\ UNCHANGED cfg
    /\ UNCHANGED <<world, sysPath, file_path, loaded, module, bytes_message,
                   fd, stdoutBuf, stdoutStream, fdOut, stderr, envReads,
                   exitStatus>>

\* the module m with its attribute `name` bound to v
SetAttr(m, name, v) == { a \in m : a[1] # name } \cup { <<name, v>> }

\* if isinstance(cfg, dict) and "middleware" in cfg: del cfg["middleware"]
\* cfg is module.config itself, so the entry leaves the module's object
DropMiddleware ==
    /\ pc = "middleware"
    /\ Step("middleware")
    /\ IF IsDict(cfg) /\ DictHas(cfg, MIDDLEWARE)
       THEN /\ cfg' = DictDel(cfg, MIDDLEWARE)
            /\ module' = SetAttr(module, "config", DictDel(cfg, MIDDLEWARE))
       ELSE UNCHANGED <<cfg, module>>
    /\ pc' = "dumps"
    /\ UNCHANGED <<world, sysPath, file_path, loaded, bytes_message, fd,
                   error, stdoutBuf, stdoutStream, fdOut, stderr, envReads,
                   exitStatus>>

\* mutant of Serialize: the encoder streams to the channel as it goes, so
\* the opening token is out before a value without an encoding is met
SerializeStreaming ==
    /\ pc = "dumps"
    /\ Step("dumps")
    /\ IF Serializable(cfg)
       THEN /\ bytes_message' = BytesMessage(cfg)
            /\ pc' = "platform"
            /\ UNCHANGED <<error, stdoutStream>>
       ELSE /\ stdoutStream' = stdoutStream \o <<LBRACE>>
            /\ Raise(TypeErrorFor(cfg))
            /\ UNCHANGED bytes_message
    /\ UNCHANGED <<world, sysPath, file_path, loaded, module, cfg, fd,
                   stdoutBuf, fdOut, stderr, envReads, exitStatus>>

\* mutant of Serialize: a value without an encoding is only noticed once
\* the channel has been selected
SerializeLate ==
    /\ pc = "dumps"
    /\ Step("dumps")
    /\ bytes_message' = IF Serializable(cfg) THEN BytesMessage(cfg) ELSE <<NEWLINE>>
    /\ pc' = "platform"
    /\ UNCHANGED <<world, sysPath, file_path, loaded, module, cfg, fd, error,
                   stdoutBuf, stdoutStream, fdOut, stderr, envReads,
                   exitStatus>>

\* send_message(cfg), first statement: json.dumps raises TypeError, else
\* the message bytes are the JSON text and a newline
Serialize ==
    /\ pc = "dumps"
    /\ Step("dumps")
    /\ IF Serializable(cfg)
       THEN /\ bytes_message' = BytesMessage(cfg)
            /\ pc' = "platform"
            /\ UNCHANGED error
       ELSE /\ Raise(TypeErrorFor(cfg))
            /\ UNCHANGED bytes_message
    /\ UNCHANGED <<world, sysPath, file_path, loaded, module, cfg, fd,
                   stdoutBuf, stdoutStream, fdOut, stderr, envReads,
                   exitStatus>>

\* mutant of UseStdout: the comparison never matches
UseStdoutNever(p) == p = "windows"

\* platform.system() == "Windows"
UseStdout(p) == p = "Windows"

\* the branch on the platform
SelectChannel ==
    /\ pc = "platform"
    /\ Step("platform")
    /\ pc' = IF UseStdout(platform) THEN "stdout_write" ELSE "environ"
    /\ UNCHANGED <<world, sysPath, file_path, loaded, module, cfg,
                   bytes_message, fd, error, stdoutBuf, stdoutStream, fdOut,
                   stderr, envReads, exitStatus>>

\* mutant of ChannelFd: an unset variable falls back to descriptor 1
ChannelFdDefault(env) ==
    IF "NODE_CHANNEL_FD" \notin DOMAIN env
    THEN [ok |-> TRUE, err |-> NoError, fd |-> 1]
    ELSE IF env["NODE_CHANNEL_FD"] \notin DOMAIN IntLiterals
    THEN [ok |-> FALSE, err |-> ValueErrorFor(env["NODE_CHANNEL_FD"]), fd |-> -1]
    ELSE [ok |-> TRUE, err |-> NoError, fd |-> IntLiterals[env["NODE_CHANNEL_FD"]]]

\* int(os.environ["NODE_CHANNEL_FD"]): KeyError when unset, ValueError
\* when not an integer literal
ChannelFd(env) ==
    IF "NODE_CHANNEL_FD" \notin DOMAIN env
    THEN [ok |-> FALSE, err |-> KeyErrorFor("NODE_CHANNEL_FD"), fd |-> -1]
    ELSE IF env["NODE_CHANNEL_FD"] \notin DOMAIN IntLiterals
    THEN [ok |-> FALSE, err |-> ValueErrorFor(env["NODE_CHANNEL_FD"]), fd |-> -1]
    ELSE [ok |-> TRUE, err |-> NoError, fd |-> IntLiterals[env["NODE_CHANNEL_FD"]]]

\* fd = int(os.environ["NODE_CHANNEL_FD"])
ReadEnviron ==
    /\ pc = "environ"
    /\ Step("environ")
    /\ envReads' = envReads \cup {"NODE_CHANNEL_FD"}
    /\ IF ChannelFd(environ).ok
       THEN /\ fd' = ChannelFd(environ).fd
            /\ pc' = "os_write"
            /\ UNCHANGED error
       ELSE /\ Raise(ChannelFd(environ).err)
            /\ UNCHANGED fd
    /\ UNCHANGED <<world, sysPath, file_path, loaded, module, cfg,
                   bytes_message, stdoutBuf, stdoutStream, fdOut, stderr,
                   exitStatus>>

\* os.write(fd, bytes_message): one write of the whole message, or OSError
\* on a descriptor that is not open
OsWrite ==
    /\ pc = "os_write"
    /\ Step("os_write")
    /\ IF fd \in OpenFds
       THEN /\ fdOut' = [fdOut EXCEPT ![fd] = @ \o bytes_message]
            /\ pc' = "return"
            /\ UNCHANGED error
       ELSE /\ Raise(BadFdError)
            /\ UNCHANGED fdOut
    /\ UNCHANGED <<world, sysPath, file_path, loaded, module, cfg,
                   bytes_message, fd, stdoutBuf, stdoutStream, stderr,
                   envReads, exitStatus>>

\* sys.stdout.buffer.write(bytes_message): the bytes go to the buffer
StdoutWrite ==
    /\ pc = "stdout_write"
    /\ Step("stdout_write")
    /\ stdoutBuf' = stdoutBuf \o bytes_message
    /\ pc' = "stdout_flush"
    /\ UNCHANGED <<world, sysPath, file_path, loaded, module, cfg,
                   bytes_message, fd, error, stdoutStream, fdOut, stderr,
                   envReads, exitStatus>>

\* sys.stdout.buffer.flush(): the buffer is delivered, or BrokenPipeError
\* when nobody reads standard output any more
StdoutFlush ==
    /\ pc = "stdout_flush"
    /\ Step("stdout_flush")
    /\ IF stdoutState = "open"
       THEN /\ stdoutStream' = stdoutStream \o stdoutBuf
            /\ stdoutBuf' = << >>
            /\ pc' = "return"
            /\ UNCHANGED error
       ELSE /\ Raise(BrokenPipe)
            /\ UNCHANGED <<stdoutStream, stdoutBuf>>
    /\ UNCHANGED <<world, sysPath, file_path, loaded, module, cfg,
                   bytes_message, fd, fdOut, stderr, envReads, exitStatus>>

\* run_python_module returns, asyncio.run returns, the script ends
Return ==
    /\ pc = "return"
    /\ Step("return")
    /\ exitStatus' = 0
    /\ pc' = "exited"
    /\ UNCHANGED <<world, sysPath, file_path, loaded, module, cfg,
                   bytes_message, fd, error, stdoutBuf, stdoutStream, fdOut,
                   stderr, envReads>>

\* except Exception as error: print the diagnostic, sys.exit(1)
Except ==
    /\ pc = "except"
    /\ Step("except")
    /\ stderr' = Append(stderr, DiagnosticLine(error))
    /\ exitStatus' = 1
    /\ pc' = "exited"
    /\ UNCHANGED <<world, sysPath, file_path, loaded, module, cfg,
                   bytes_message, fd, error, stdoutBuf, stdoutStream, fdOut,
                   envReads>>

Next ==
    \/ Main
    \/ InsertPath
    \/ SpecFromFile
    \/ ExecModule
    \/ CheckConfig
    \/ DropMiddleware
    \/ Serialize
    \/ SelectChannel
    \/ ReadEnviron
    \/ OsWrite
    \/ StdoutWrite
    \/ StdoutFlush
    \/ Return
    \/ Except

Spec == Init /\ [][Next]_vars

\* the state is well formed
TypeOK ==
    /\ pc \in {"main", "path", "spec", "exec", "hasattr", "middleware", "dumps",
               "platform", "environ", "os_write", "stdout_write",
               "stdout_flush", "return", "except", "exited"}
    /\ exitStatus \in {-1, 0, 1, 3, InterruptStatus}
    /\ (pc = "exited") = (exitStatus # -1)

\* ------------------------------------------------------------ vocabulary
Exited == pc = "exited"

\* the process was given a module path
HasPathArg == Len(argv) >= 2

\* nothing has reached standard output or any descriptor
NothingWritten ==
    /\ stdoutStream = << >>
    /\ \A d \in AllFds : fdOut[d] = << >>

\* the contents of the sinks that received something
Outputs ==
    { fdOut[d] : d \in { e \in AllFds : fdOut[e] # << >> } }
    \cup (IF stdoutStream # << >> THEN {stdoutStream} ELSE {})

\* how many sinks received something
SinkCount ==
    Cardinality({ e \in AllFds : fdOut[e] # << >> })
    + (IF stdoutStream # << >> THEN 1 ELSE 0)

\* t is one line holding one JSON text: the only newline is the last
\* token and the rest is the encoding of the value it decodes to
IsJsonLine(t) ==
    /\ Len(t) >= 2
    /\ t[Len(t)] = NEWLINE
    /\ \A i \in 1..(Len(t) - 1) : t[i] # NEWLINE
    /\ Dumps(Loads(t)) = SubSeq(t, 1, Len(t) - 1)

\* the config as the module's source defines it
DefinesConfig == HasAttr(file.attrs, "config")
SourceConfig == GetAttr(file.attrs, "config")

\* the source config less its top-level middleware entry
Cleaned(c) == IF IsDict(c) THEN PyDict(SelectSeq(c[2], LAMBDA e : e[1] # MIDDLEWARE)) ELSE c

\* Python's ==: dicts compare by key and value, not by order
RECURSIVE SameValue(_, _)
SameValue(a, b) ==
    IF a[1] # b[1] THEN FALSE
    ELSE CASE a[1] = "list" ->
                /\ Len(a[2]) = Len(b[2])
                /\ \A i \in 1..Len(a[2]) : SameValue(a[2][i], b[2][i])
           [] a[1] = "dict" ->
                /\ DictKeys(a) = DictKeys(b)
                /\ \A k \in DictKeys(a) : SameValue(DictGet(a, k), DictGet(b, k))
           [] OTHER -> a = b

\* every dict key, at every depth, is a str
RECURSIVE StringKeyed(_)
StringKeyed(v) ==
    CASE v[1] = "list" -> \A i \in 1..Len(v[2]) : StringKeyed(v[2][i])
      [] v[1] = "dict" ->
           \A i \in 1..Len(v[2]) : v[2][i][1][1] = "str" /\ StringKeyed(v[2][i][2])
      [] OTHER -> TRUE

InTrace(name) == \E i \in 1..Len(trace) : trace[i] = name

\* the line names the string w / holds the part q
LineNames(line, w) == \E i \in 1..Len(line) : \E j \in 1..Len(line[i]) : line[i][j] = w
LineHolds(line, q) == \E i \in 1..Len(line) : line[i] = q

\* ------------------------------------------------------------------- C1
\* C1: every run given a module path ends in exactly one of: status 0 with
\* exactly one newline-terminated JSON message written to one sink; or a
\* non-zero status with a diagnostic on standard error and no message.
C1_ExactlyOneOutcome ==
    (Exited /\ HasPathArg) =>
        \/ /\ exitStatus = 0
           /\ SinkCount = 1
           /\ \A t \in Outputs : IsJsonLine(t)
        \/ /\ exitStatus # 0
           /\ stderr # << >>
           /\ NothingWritten

\* ------------------------------------------------------------------- C2
\* C2 (as claimed): whatever the shape of config, no member named
\* middleware occurs anywhere in a message that was written.
C2_NoMiddlewareAnywhere ==
    \A t \in Outputs : ~WireHasKey(t, "middleware")

\* C2 (amended): a written message is one JSON line whose value, when an
\* object, has no top-level member named middleware.
C2_NoTopLevelMiddleware ==
    \A t \in Outputs :
        /\ IsJsonLine(t)
        /\ IsDict(Loads(t)) => ~DictHas(Loads(t), MIDDLEWARE)

\* a run that sent the message of a config defining a top-level middleware
C2_Witness ==
    /\ Exited /\ exitStatus = 0 /\ SinkCount = 1
    /\ DefinesConfig
    /\ IsDict(SourceConfig) /\ DictHas(SourceConfig, MIDDLEWARE)
    /\ Len(SourceConfig[2]) = 2

\* ------------------------------------------------------------------- C3
\* C3 (as claimed): for a config that is a dict and serializable once its
\* top-level middleware is dropped, the message decodes to the config less
\* that entry: same keys, same values, order aside.
C3_RoundTrip ==
    (DefinesConfig /\ IsDict(SourceConfig) /\ Serializable(Cleaned(SourceConfig))) =>
        \A t \in Outputs : SameValue(Loads(t), Cleaned(SourceConfig))

\* C3 (amended): the same, for a config whose dict keys are all strings.
C3_RoundTripStringKeys ==
    (/\ DefinesConfig /\ IsDict(SourceConfig)
     /\ Serializable(Cleaned(SourceConfig))
     /\ StringKeyed(Cleaned(SourceConfig))) =>
        \A t \in Outputs : SameValue(Loads(t), Cleaned(SourceConfig))

\* a run that sent a string-keyed config that had a middleware and another
\* entry
C3_Witness ==
    /\ Exited /\ exitStatus = 0 /\ SinkCount = 1
    /\ DefinesConfig /\ IsDict(SourceConfig)
    /\ StringKeyed(SourceConfig)
    /\ DictHas(SourceConfig, MIDDLEWARE)
    /\ DictHas(SourceConfig, PyStr("queue"))
    /\ \E t \in Outputs : DictKeys(Loads(t)) = {PyStr("queue")}

\* ------------------------------------------------------------------- C4
\* C4: a run that ends in failure has written nothing to standard output
\* or to any descriptor, and at every moment a sink holds either nothing
\* or the whole message with its trailing newline.
C4_NoOutputOnFailure ==
    /\ (Exited /\ exitStatus # 0) => NothingWritten
    /\ \A t \in Outputs : t = bytes_message /\ t[Len(t)] = NEWLINE

\* a run that failed after the message bytes had been built
C4_Witness ==
    /\ Exited /\ exitStatus = 1
    /\ bytes_message # << >>
    /\ error.type \in {"OSError", "BrokenPipeError"}

\* ------------------------------------------------------------------- C5
\* C5: the sink is chosen by the platform alone. On Windows the line goes
\* to standard output, flushed, and NODE_CHANNEL_FD is never looked up; on
\* another platform it goes to the descriptor NODE_CHANNEL_FD names and
\* nothing is written to, or buffered for, the standard output stream.
\* A run that returns from send_message has the whole line on that sink.
C5_SinkByPlatform ==
    /\ platform = "Windows" =>
          /\ envReads = {}
          /\ fd = -1
          /\ \A d \in AllFds : fdOut[d] = << >>
          /\ InTrace("return") =>
                stdoutStream = bytes_message /\ stdoutBuf = << >>
    /\ platform # "Windows" =>
          /\ stdoutStream = << >>
          /\ stdoutBuf = << >>
          /\ \A d \in AllFds :
                fdOut[d] # << >> =>
                   /\ "NODE_CHANNEL_FD" \in DOMAIN environ
                   /\ environ["NODE_CHANNEL_FD"] \in DOMAIN IntLiterals
                   /\ d = IntLiterals[environ["NODE_CHANNEL_FD"]]
          /\ InTrace("return") =>
                /\ "NODE_CHANNEL_FD" \in envReads
                /\ fdOut[fd] = bytes_message

\* a Windows run that sent its message while NODE_CHANNEL_FD was set
C5_Witness ==
    /\ Exited /\ exitStatus = 0
    /\ platform = "Windows"
    /\ "NODE_CHANNEL_FD" \in DOMAIN environ
    /\ stdoutStream # << >>

\* ------------------------------------------------------------------- C6
\* NODE_CHANNEL_FD is unset or does not read as an integer
ChannelUnusable ==
    \/ "NODE_CHANNEL_FD" \notin DOMAIN environ
    \/ environ["NODE_CHANNEL_FD"] \notin DOMAIN IntLiterals

\* C6: off Windows, with NODE_CHANNEL_FD unset or not numeric, a run whose
\* module loads with a serializable config ends with a non-zero status,
\* one diagnostic on standard error, that of the failed lookup (naming
\* NODE_CHANNEL_FD) or of the failed conversion (quoting the value), and
\* nothing written to standard output or to any descriptor.
C6_ChannelFailure ==
    (/\ Exited /\ platform # "Windows" /\ ChannelUnusable
     /\ loaded /\ DefinesConfig /\ Serializable(Cleaned(SourceConfig))) =>
        /\ exitStatus # 0
        /\ Len(stderr) = 1
        /\ IF "NODE_CHANNEL_FD" \notin DOMAIN environ
           THEN /\ error.type = "KeyError"
                /\ LineNames(stderr[1], "NODE_CHANNEL_FD")
           ELSE /\ error.type = "ValueError"
                /\ LineNames(stderr[1], environ["NODE_CHANNEL_FD"])
        /\ NothingWritten
        /\ stdoutBuf = << >>

\* a run off Windows with NODE_CHANNEL_FD unset and a serializable config
C6_Witness ==
    /\ Exited /\ platform # "Windows"
    /\ "NODE_CHANNEL_FD" \notin DOMAIN environ
    /\ loaded /\ DefinesConfig /\ Serializable(Cleaned(SourceConfig))
    /\ bytes_message # << >>

\* ------------------------------------------------------------------- C7
\* C7: without the path argument every step the process takes ends it with
\* status 1, nothing on any sink or on standard error, no module loaded
\* and sys.path as it was.
C7_MissingArgument ==
    [][ ~HasPathArg =>
          /\ pc' = "exited"
          /\ exitStatus' = 1
          /\ NothingWritten'
          /\ stdoutBuf' = << >>
          /\ stderr' = << >>
          /\ ~loaded' /\ module' = {}
          /\ sysPath' = sysPath ]_vars

\* a run without the path argument has ended
C7_Witness == ~HasPathArg /\ Exited /\ exitStatus = 1

\* ------------------------------------------------------------------- C8
\* C8: for a module that loads without a config attribute the run ends
\* with a non-zero status and one diagnostic naming "config" and the path
\* given on the command line; middleware removal, serialization, channel
\* selection and channel writes are never reached.
C8_MissingConfig ==
    (Exited /\ loaded /\ ~DefinesConfig) =>
        /\ exitStatus # 0
        /\ Len(stderr) = 1
        /\ LineNames(stderr[1], "config")
        /\ LineHolds(stderr[1], argv[2])
        /\ \A n \in {"middleware", "dumps", "platform", "environ", "os_write",
                     "stdout_write", "stdout_flush"} : ~InTrace(n)
        /\ cfg = Unbound /\ bytes_message = << >>
        /\ NothingWritten /\ stdoutBuf = << >>

\* a run whose module loaded without a config has ended
C8_Witness == Exited /\ loaded /\ ~DefinesConfig /\ error.type = "AttributeError"

\* ------------------------------------------------------------------- C9
\* C9: once the module is loaded, its config object has the keys and
\* values its source gave it.
C9_ConfigNeverMutated ==
    (loaded /\ DefinesConfig) => GetAttr(module, "config") = SourceConfig

\* ------------------------------------------------------------------ C10
\* the statements up to the choice of channel, in program order
Order == <<"main", "path", "spec", "exec", "hasattr", "middleware", "dumps", "platform">>

\* C10: the steps run in the order load, config check, middleware
\* removal, serialization, channel selection, write; a step that raises
\* is followed by the except clause alone; NODE_CHANNEL_FD is read only
\* after serialization succeeded, so a config that cannot be serialized
\* is reported as such whatever NODE_CHANNEL_FD holds, and a failed load
\* or config check never reads it.
C10_StepOrder ==
    /\ \A i \in 1..Len(trace) :
          \/ trace[i] = "except" /\ i = Len(trace)
          \/ i <= Len(Order) /\ trace[i] = Order[i]
          \/ i = Len(Order) + 1 /\ trace[i] \in {"environ", "stdout_write"}
          \/ i = Len(Order) + 2 /\ trace[i] = "os_write" /\ trace[i - 1] = "environ"
          \/ i = Len(Order) + 2 /\ trace[i] = "stdout_flush" /\ trace[i - 1] = "stdout_write"
          \/ i = Len(Order) + 3 /\ trace[i] = "return" /\ i = Len(trace)
    /\ error # NoError => pc \in {"except", "exited"}
    /\ "NODE_CHANNEL_FD" \in envReads =>
          /\ InTrace("dumps")
          /\ Serializable(cfg)
          /\ bytes_message = BytesMessage(cfg)
    /\ (Exited /\ cfg # Unbound /\ ~Serializable(cfg)) =>
          /\ error.type = "TypeError"
          /\ stderr = <<DiagnosticLine(TypeErrorFor(cfg))>>
          /\ envReads = {}
    /\ (~loaded \/ cfg = Unbound) => envReads = {}

\* a run off Windows with NODE_CHANNEL_FD unset and a config that cannot
\* be serialized has ended
C10_Witness ==
    /\ Exited /\ platform # "Windows"
    /\ "NODE_CHANNEL_FD" \notin DOMAIN environ
    /\ cfg # Unbound /\ ~Serializable(cfg)
    /\ error.type = "TypeError"

====
